---- MODULE Spec2Model ----
(***************************************************************************)
(* xcmath: fixed-size containers (vec), matrices (mat) and their operator  *)
(* algebra, modelled as operators over sequences of fixed-width integers.  *)
(*                                                                         *)
(* A container vec<_Tp,_length> is a sequence of _length items; C++ index  *)
(* i is index i + 1 here.  A mat<_Tp,_rows,_cols> is a sequence of _rows   *)
(* row containers of _cols items each.                                     *)
(*                                                                         *)
(* State: the operands of one library call and what the call produced.     *)
(*   self   the object the member function is called on                    *)
(*   other  the container argument of the call                             *)
(*   item   the scalar argument of the call                                *)
(*   res    the value returned by the last call (<<>> before any call)     *)
(*   op     the name of the last call ("none" before any call)             *)
(*   fn     the operator token of the last call when it was generated by   *)
(*          one of the operator macros ("" otherwise)                      *)
(*   fault  what went wrong in the last call: "none", "ill_formed" (the    *)
(*          call does not compile), "out_of_range" (an index >= length     *)
(*          was used), "assertion_failed" (the assert of operator[]        *)
(*          stopped the program), "indeterminate" (an uninitialized item   *)
(*          was left in the result) or "division_by_zero"                  *)
(* In the specifications about types self (and other) is a type, in those  *)
(* about slices other is the pair of template arguments, in those about    *)
(* calls that change self in place item counts the calls.  The items of a  *)
(* quaternion<double> are exact fractions.                                 *)
(***************************************************************************)
EXTENDS Integers, Sequences, FiniteSets, TLC

VARIABLES self, other, item, res, op, fn, fault

vars == <<self, other, item, res, op, fn, fault>>

(***************************************************************************)
(* Bounds of the model.                                                    *)
(***************************************************************************)
\* width in bits of the modelled arithmetic item type
IntWidth == 8
\* items written into the operands range over -ElemMax..ElemMax
ElemMax == 1
\* number of items of an operand matrix overwritten through operator[]
MaxEdits == 1
\* coefficients tried when looking for a linear dependency between rows
CoefMax == 2
\* rows and columns of the containers of containers of bool
BoolDim == 3
\* levels of nesting of the container types
MaxDepth == 3
\* calls of ++ and -- made on one vector
MaxCalls == 2

(***************************************************************************)
(* Program constants.                                                      *)
(***************************************************************************)
\* the largest number of rows or columns the library names (mat4x4, vec4)
MaxDim == 4

(***************************************************************************)
(* Arithmetic of the item type: two's complement, IntWidth bits.           *)
(***************************************************************************)
Modulus == 2 ^ IntWidth
IntMin == -(2 ^ (IntWidth - 1))
IntMax == (2 ^ (IntWidth - 1)) - 1
ItemRange == IntMin..IntMax

Wrap(x) == ((x - IntMin) % Modulus) + IntMin

Elem == (-ElemMax)..ElemMax

\* the binary operators the operator macros are instantiated with
ApplyOp_alwaysPlus(f, x, y) == Wrap(x + y)

ApplyOp(f, x, y) ==
    CASE f = "+" -> Wrap(x + y)
      [] f = "-" -> Wrap(x - y)
      [] f = "*" -> Wrap(x * y)

\* unary minus of an item
Negate(x) == Wrap(0 - x)

(***************************************************************************)
(* Construction.                                                           *)
(***************************************************************************)
\* vec(): data{_Tp{}}, every item value-initialized
vec(length) == [i \in 1..length |-> 0]

\* mat(): the inherited default constructor, _rows default rows
mat(rows, cols) == [i \in 1..rows |-> vec(cols)]

NumRows(m) == Len(m)
NumCols(m) == Len(m[1])

\* mat::eye()
eye_fullDiagonal(rows, cols) ==
    [i \in 1..rows |-> [j \in 1..cols |-> IF j = i \/ j = cols THEN 1 ELSE 0]]

eye(rows, cols) ==
    LET n == IF rows < cols THEN rows ELSE cols
    IN  [i \in 1..rows |->
            [j \in 1..cols |-> IF i = j /\ i <= n THEN 1 ELSE mat(rows, cols)[i][j]]]

(***************************************************************************)
(* mat::det(): cofactor expansion along the first row.                     *)
(***************************************************************************)
\* the sign ((j % 2 == 0) ? 1 : -1) of column j (0-based)
sign_alwaysPlus(j) == 1

sign(j) == IF j % 2 = 0 THEN 1 ELSE -1

\* the minor filled by the two k loops: row 0 and column j (0-based) deleted
submat_dropFirstColumn(m, j) ==
    LET n == NumRows(m)
    IN  [i \in 1..(n - 1) |-> [k \in 1..(n - 1) |-> m[i + 1][k + 1]]]

submat(m, j) ==
    LET n == NumRows(m)
    IN  [i \in 1..(n - 1) |->
            [k \in 1..(n - 1) |->
                IF k - 1 < j THEN m[i + 1][k] ELSE m[i + 1][k + 1]]]

RECURSIVE det(_)
RECURSIVE detLoop(_, _)

\* the value of res after the iterations j = 0 .. upto - 1 of the j loop
detLoop(m, upto) ==
    IF upto = 0 THEN 0
    ELSE LET j == upto - 1
         IN  Wrap(detLoop(m, upto - 1)
                  + Wrap(Wrap(sign(j) * m[1][j + 1]) * det(submat(m, j))))

det(m) ==
    IF NumRows(m) = 1 THEN m[1][1]
    ELSE IF NumRows(m) = 2
         THEN Wrap(Wrap(m[1][1] * m[2][2]) - Wrap(m[1][2] * m[2][1]))
         ELSE detLoop(m, NumRows(m))

(***************************************************************************)
(* Operand matrices: as the tests build them, a constructed matrix with    *)
(* some items overwritten through operator[].                              *)
(***************************************************************************)
\* the matrix {{1, 2, 3}, {4, 5, 6}, {7, 8, 9}} of the tests, any shape
CountMat(rows, cols) ==
    [i \in 1..rows |-> [j \in 1..cols |-> (i - 1) * cols + j]]

\* the operands of the det__3x3, det__4x4 and det__SingularMatrix tests
TestMats(n) ==
    CASE n = 2 -> {<<<<1, 2>>, <<2, 4>>>>}
      [] n = 3 -> {<<<<1, 2, 3>>, <<0, 4, 5>>, <<1, 0, 6>>>>}
      [] n = 4 -> {<<<<1, 0, 2, -1>>, <<3, 0, 0, 5>>,
                     <<2, 1, 4, -3>>, <<1, 0, -1, 6>>>>}
      [] OTHER -> {}

BaseMats(rows, cols) ==
    {mat(rows, cols), eye(rows, cols), CountMat(rows, cols)}

RECURSIVE Edited(_, _, _, _)
\* the matrices of S with at most k items overwritten (m[i][j] = x)
Edited(S, rows, cols, k) ==
    IF k = 0 THEN S
    ELSE LET P == Edited(S, rows, cols, k - 1)
         IN  P \cup {[m EXCEPT ![i][j] = x] :
                        m \in P, i \in 1..rows, j \in 1..cols, x \in Elem}

DetOperands ==
    UNION {Edited(BaseMats(n, n) \cup TestMats(n), n, n, MaxEdits) :
              n \in 1..MaxDim}

(***************************************************************************)
(* Specification SpecDet: det() of a square matrix.                        *)
(***************************************************************************)
InitDet ==
    /\ self \in DetOperands
    /\ other = <<>>
    /\ item = 0
    /\ res = <<>>
    /\ op = "none"
    /\ fn = ""
    /\ fault = "none"

Det ==
    /\ op' = "det"
    /\ fn' = ""
    /\ res' = det(self)
    /\ fault' = "none"
    /\ UNCHANGED <<self, other, item>>

NextDet == Det

SpecDet == InitDet /\ [][NextDet]_vars

(***************************************************************************)
(* Reference determinant: the Leibniz sum over permutations.               *)
(***************************************************************************)
PermSet(n) ==
    {p \in [1..n -> 1..n] : \A a, b \in 1..n : a # b => p[a] # p[b]}

Inversions(p, n) ==
    Cardinality({pr \in (1..n) \X (1..n) : pr[1] < pr[2] /\ p[pr[1]] > p[pr[2]]})

RECURSIVE ProductAlong(_, _, _)
ProductAlong(m, p, i) ==
    IF i = 0 THEN 1 ELSE Wrap(ProductAlong(m, p, i - 1) * m[i][p[i]])

RECURSIVE SumOver(_, _, _)
SumOver(m, n, P) ==
    IF P = {} THEN 0
    ELSE LET p == CHOOSE q \in P : TRUE
             sgn == IF Inversions(p, n) % 2 = 0 THEN 1 ELSE -1
         IN  Wrap(Wrap(sgn * ProductAlong(m, p, n)) + SumOver(m, n, P \ {p}))

Leibniz(m) == SumOver(m, NumRows(m), PermSet(NumRows(m)))

\* the first-row cofactor expansion the specification describes
CofactorSum(m) ==
    LET n == NumRows(m)
        minusOneTo(j) == IF j % 2 = 0 THEN 1 ELSE -1
        term(j) == Wrap(Wrap(minusOneTo(j) * m[1][j + 1])
                        * Leibniz(submat(m, j)))
        RECURSIVE acc(_)
        acc(k) == IF k = 0 THEN 0 ELSE Wrap(acc(k - 1) + term(k - 1))
    IN  acc(n)

\* C2: for every square matrix of 1..4 rows det() is the reference
\* determinant: the sole item for 1x1, a*d - b*c for 2x2, and for larger
\* matrices the first-row cofactor expansion over the minors.
C2_DetIsReference ==
    op = "det" =>
        /\ res = Leibniz(self)
        /\ NumRows(self) = 1 => res = self[1][1]
        /\ NumRows(self) = 2 =>
               res = Wrap(Wrap(self[1][1] * self[2][2])
                          - Wrap(self[1][2] * self[2][1]))
        /\ NumRows(self) > 2 =>
               res = Wrap(0 + CofactorSum(self))

\* a 4x4 operand with a non-zero determinant has been evaluated
C2_Witness ==
    /\ op = "det"
    /\ NumRows(self) = 4
    /\ res # 0
    /\ \E i, j \in 1..4 : i # j /\ self[i][j] # 0

(***************************************************************************)
(* Linear dependency of the rows, over the integers, with coefficients of  *)
(* absolute value at most CoefMax.                                         *)
(***************************************************************************)
RECURSIVE Combination(_, _, _, _)
\* c[1] * m[1][j] + ... + c[i] * m[i][j]
Combination(m, c, j, i) ==
    IF i = 0 THEN 0 ELSE Combination(m, c, j, i - 1) + c[i] * m[i][j]

RowsDependent(m) ==
    LET n == NumRows(m)
    IN  \E c \in [1..n -> (-CoefMax)..CoefMax] :
            /\ \E i \in 1..n : c[i] # 0
            /\ \A j \in 1..n : Combination(m, c, j, n) = 0

\* C3: det() of a square matrix of 2..4 rows whose rows are linearly
\* dependent (equal rows, proportional rows, a zero row, ...) is 0.
C3_SingularDetZero ==
    (op = "det" /\ NumRows(self) >= 2 /\ RowsDependent(self)) => res = 0

\* det() has been taken of a 4x4 matrix with dependent rows, none of them
\* zero and no two of them equal
C3_Witness ==
    /\ op = "det"
    /\ NumRows(self) = 4
    /\ RowsDependent(self)
    /\ \A i \in 1..4 : self[i] # vec(4)
    /\ \A i, k \in 1..4 : i # k => self[i] # self[k]
    /\ res = 0

(***************************************************************************)
(* mat::operator^ (matrix), mat::operator^ (vector), mat::T, mat::ones.    *)
(***************************************************************************)
\* what an indeterminate or out-of-range item may turn out to hold
Junk == Elem

RECURSIVE mulLoop(_, _, _, _, _)
\* res[i][j] after the iterations k = 0 .. upto - 1 of the k loop; res is
\* default constructed before the loops
mulLoop_overwrite(a, b, i, j, upto) ==
    IF upto = 0 THEN mat(NumRows(a), NumCols(b))[i][j]
    ELSE Wrap(a[i][upto] * b[upto][j])

mulLoop(a, b, i, j, upto) ==
    IF upto = 0 THEN mat(NumRows(a), NumCols(b))[i][j]
    ELSE Wrap(mulLoop(a, b, i, j, upto - 1) + Wrap(a[i][upto] * b[upto][j]))

\* operator^(const mat<_Tp, _cols, _ncols>& other)
mat_mul_mat_itemwise(a, b) ==
    [i \in 1..NumRows(a) |-> [j \in 1..NumCols(b) |-> Wrap(a[i][j] * b[i][j])]]

mat_mul_mat(a, b) ==
    [i \in 1..NumRows(a) |->
        [j \in 1..NumCols(b) |-> mulLoop(a, b, i, j, NumCols(a))]]

\* the indices j < _cols of the j loop that are not indices of the vector
OutOfRange(m, v) == {j \in 1..NumCols(m) : j \notin DOMAIN v}

\* other[j]: the item, or what lies behind the array when j >= length
ReadItem(v, j, junk) == IF j \in DOMAIN v THEN v[j] ELSE junk[j]

RECURSIVE mulVecLoop(_, _, _, _, _)
\* res[i] after the iterations j = 0 .. upto - 1 of the j loop
mulVecLoop(m, v, junk, i, upto) ==
    IF upto = 0 THEN vec(Len(v))[i]
    ELSE Wrap(mulVecLoop(m, v, junk, i, upto - 1)
              + Wrap(m[i][upto] * ReadItem(v, upto, junk)))

\* operator^(const _VTp& other), requires(_VTp::length == _rows)
mat_mul_vec(m, v, junk) ==
    [i \in 1..NumRows(m) |-> mulVecLoop(m, v, junk, i, NumCols(m))]

\* T()
T_firstColumn(m) ==
    [j \in 1..NumCols(m) |-> [i \in 1..NumRows(m) |-> m[i][1]]]

T(m) == [j \in 1..NumCols(m) |-> [i \in 1..NumRows(m) |-> m[i][j]]]

\* vec(const std::initializer_list<ItemType>& list): data is not initialized
\* by the constructor, the items of the list are assigned from the front;
\* before holds what data holds on entry (default constructed items of class
\* type, indeterminate items of arithmetic type)
vec_from_list(length, list, before) ==
    [i \in 1..length |-> IF i <= Len(list) THEN list[i] ELSE before[i]]

\* ones(): Self<_Tp>{vec<_Tp, _cols>{_Tp{1}}}; both braces select the
\* initializer_list constructor
ones(rows, cols, junk) ==
    vec_from_list(rows, <<vec_from_list(cols, <<1>>, junk)>>, mat(rows, cols))

(***************************************************************************)
(* Operand vectors.                                                        *)
(***************************************************************************)
\* {1, 2, 3} and {4, 5, 6} of the tests, any length
CountVec(n) == [i \in 1..n |-> i]
CountVecFrom4(n) == [i \in 1..n |-> i + 3]
\* the largest and the smallest item, alternating
ExtremeVec(n) == [i \in 1..n |-> IF i % 2 = 1 THEN IntMax ELSE IntMin]

BaseVecs(n) == {vec(n), CountVec(n), CountVecFrom4(n), ExtremeVec(n)}

RECURSIVE EditedVecs(_, _, _)
\* the vectors of S with at most k items overwritten (v[i] = x)
EditedVecs(S, n, k) ==
    IF k = 0 THEN S
    ELSE LET P == EditedVecs(S, n, k - 1)
         IN  P \cup {[v EXCEPT ![i] = x] : v \in P, i \in 1..n, x \in Elem}

VecOperands(n) == EditedVecs(BaseVecs(n), n, MaxEdits)

MatOperands(rows, cols) == Edited(BaseMats(rows, cols), rows, cols, MaxEdits)

Shapes == (1..MaxDim) \X (1..MaxDim)

(***************************************************************************)
(* Specification SpecMat: the matrix product self ^ other.                 *)
(***************************************************************************)
InitMat ==
    /\ \E sh \in Shapes, ncols \in 1..MaxDim :
          \/ /\ self \in MatOperands(sh[1], sh[2])
             /\ other = CountMat(sh[2], ncols)
          \/ /\ self = CountMat(sh[1], sh[2])
             /\ other \in MatOperands(sh[2], ncols)
    /\ item = 0
    /\ res = <<>>
    /\ op = "none"
    /\ fn = ""
    /\ fault = "none"

MatMul ==
    /\ NumCols(self) = NumRows(other)
    /\ op' = "mat_mul_mat"
    /\ fn' = "^"
    /\ res' = mat_mul_mat(self, other)
    /\ fault' = "none"
    /\ UNCHANGED <<self, other, item>>

NextMat == MatMul

SpecMat == InitMat /\ [][NextMat]_vars

RECURSIVE Sigma(_, _, _)
\* the sum of term[k] over the k in S, in the integers
Sigma(a, b, S) ==
    IF S = {} THEN 0
    ELSE LET k == CHOOSE x \in S : TRUE
         IN  a[k] * b[k] + Sigma(a, b, S \ {k})

Column(m, j) == [k \in 1..NumRows(m) |-> m[k][j]]

\* C4: self ^ other of an R x C and a C x N matrix is the R x N matrix whose
\* item [i][j] is the sum over k < C of self[i][k] * other[k][j], counted up
\* from zero.
C4_MatrixProduct ==
    op = "mat_mul_mat" =>
        /\ NumRows(res) = NumRows(self)
        /\ \A i \in 1..NumRows(self) :
              /\ Len(res[i]) = NumCols(other)
              /\ \A j \in 1..NumCols(other) :
                    res[i][j] = Wrap(Sigma(self[i], Column(other, j),
                                           1..NumCols(self)))

\* a product of two matrices of different, non-square shapes with a
\* non-zero item has been formed
C4_Witness ==
    /\ op = "mat_mul_mat"
    /\ NumRows(self) = 2 /\ NumCols(self) = 3 /\ NumCols(other) = 4
    /\ \E i \in 1..2, j \in 1..4 : res[i][j] # 0

(***************************************************************************)
(* Specification SpecMatVec: self ^ other with a vector, eye() ^ other     *)
(* and T().                                                                *)
(***************************************************************************)
InitMatVec ==
    /\ \E sh \in Shapes :
          \/ /\ self \in MatOperands(sh[1], sh[2])
             /\ other = CountVec(sh[1])
          \/ /\ self = CountMat(sh[1], sh[2])
             /\ other \in VecOperands(sh[1])
    /\ item = 0
    /\ res = <<>>
    /\ op = "none"
    /\ fn = ""
    /\ fault = "none"

\* m ^ v: every index in range; or an index past the vector is read, which
\* either yields whatever lies there or fails the assertion of operator[]
Product(m, v, name) ==
    /\ Len(v) = NumRows(m)
    /\ op' = name
    /\ fn' = "^"
    /\ \/ /\ OutOfRange(m, v) = {}
          /\ res' = mat_mul_vec(m, v, <<>>)
          /\ fault' = "none"
       \/ /\ OutOfRange(m, v) # {}
          /\ \E junk \in [OutOfRange(m, v) -> Junk] :
                res' = mat_mul_vec(m, v, junk)
          /\ fault' = "out_of_range"
       \/ /\ OutOfRange(m, v) # {}
          /\ res' = <<>>
          /\ fault' = "assertion_failed"
    /\ UNCHANGED <<self, other, item>>

MatVec == Product(self, other, "mat_mul_vec")

EyeVec == Product(eye(NumRows(self), NumCols(self)), other, "eye_mul_vec")

Transpose ==
    /\ op' = "T"
    /\ fn' = ""
    /\ res' = T(self)
    /\ fault' = "none"
    /\ UNCHANGED <<self, other, item>>

NextMatVec == MatVec \/ EyeVec \/ Transpose

SpecMatVec == InitMatVec /\ [][NextMatVec]_vars

\* C5: for every R x C matrix and every vector the product is enabled for
\* (length R), item i of self ^ other is the sum over j < C of
\* self[i][j] * other[j].
C5_MatrixVectorProduct ==
    op = "mat_mul_vec" =>
        /\ \A j \in 1..NumCols(self) : j \in DOMAIN other
        /\ Len(res) = NumRows(self)
        /\ \A i \in 1..NumRows(self) :
              res[i] = Wrap(Sigma(self[i], other, 1..NumCols(self)))

\* C6: for every shape and every vector the product is enabled for,
\* eye() ^ other equals other item by item.
C6_EyeIsNoOp ==
    op = "eye_mul_vec" =>
        /\ Len(res) = Len(other)
        /\ \A i \in 1..Len(other) : res[i] = other[i]

\* C7: T() of an R x C matrix is the C x R matrix with res[j][i] = self[i][j],
\* and the transpose of the transpose is the matrix itself.
C7_Transpose ==
    op = "T" =>
        /\ NumRows(res) = NumCols(self)
        /\ \A j \in 1..NumCols(self) :
              /\ Len(res[j]) = NumRows(self)
              /\ \A i \in 1..NumRows(self) : res[j][i] = self[i][j]
        /\ T(res) = self

\* a non-square matrix with two different items has been transposed
C7_Witness ==
    /\ op = "T"
    /\ NumRows(self) = 2 /\ NumCols(self) = 3
    /\ self[1][2] # self[2][1]
    /\ res # self

(***************************************************************************)
(* Specification SpecCtor: the static constructor ones().                  *)
(***************************************************************************)
InitCtor ==
    /\ \E sh \in Shapes : self \in BaseMats(sh[1], sh[2])
    /\ other = <<>>
    /\ item = 0
    /\ res = <<>>
    /\ op = "none"
    /\ fn = ""
    /\ fault = "none"

Ones ==
    /\ op' = "ones"
    /\ fn' = ""
    /\ \E junk \in [2..NumCols(self) -> Junk] :
          res' = ones(NumRows(self), NumCols(self), junk)
    /\ fault' = IF NumCols(self) > 1 THEN "indeterminate" ELSE "none"
    /\ UNCHANGED <<self, other, item>>

NextCtor == Ones

SpecCtor == InitCtor /\ [][NextCtor]_vars

\* C8: for every shape, every item of ones() equals 1.
C8_OnesAllOne ==
    op = "ones" =>
        \A i \in 1..NumRows(self) : \A j \in 1..NumCols(self) : res[i][j] = 1

(***************************************************************************)
(* vec op vec, unary minus, cross, item op vec.                            *)
(***************************************************************************)
\* operator+, operator-, operator* of two vectors of one length:
\* res[i] = data[i] op o[i]
vec_op_vec(f, d, o) == [i \in 1..Len(d) |-> ApplyOp(f, d[i], o[i])]

\* operator-(): res[i] = -data[i]
neg(d) == [i \in 1..Len(d) |-> Negate(d[i])]

\* cross(): the three assignments to a default constructed res
cross_plus(d, o) ==
    [vec(Len(d)) EXCEPT
        ![1] = Wrap(Wrap(d[2] * o[3]) + Wrap(d[3] * o[2])),
        ![2] = Wrap(Wrap(d[3] * o[1]) + Wrap(d[1] * o[3])),
        ![3] = Wrap(Wrap(d[1] * o[2]) + Wrap(d[2] * o[1]))]

cross(d, o) ==
    [vec(Len(d)) EXCEPT
        ![1] = Wrap(Wrap(d[2] * o[3]) - Wrap(d[3] * o[2])),
        ![2] = Wrap(Wrap(d[3] * o[1]) - Wrap(d[1] * o[3])),
        ![3] = Wrap(Wrap(d[1] * o[2]) - Wrap(d[2] * o[1]))]

\* item op vec in src/mobject/vec.hpp: the loop body is res[i] = other[i] + o
\* for each of the operators, where other is the item and o the vector; an
\* item has no operator[], so no use of the operator compiles
item_op_vec(f, oth, o) == [fault |-> "ill_formed", value |-> <<>>]

\* item op vec in the later revisions: res[i] = other op o[i]
item_op_vec_v2(f, oth, o) ==
    [fault |-> "none",
     value |-> [i \in 1..Len(o) |-> ApplyOp(f, oth, o[i])]]

(***************************************************************************)
(* Specification SpecVec: (self + other) - other, self.cross(other) and    *)
(* item op self.                                                           *)
(***************************************************************************)
Operators == {"+", "-", "*"}

InitVec ==
    /\ \E n \in 1..MaxDim :
          \/ /\ self \in VecOperands(n)
             /\ other \in BaseVecs(n)
          \/ /\ self \in BaseVecs(n)
             /\ other \in VecOperands(n)
    /\ item \in Elem \cup {IntMin, IntMax}
    /\ res = <<>>
    /\ op = "none"
    /\ fn = ""
    /\ fault = "none"

AddSub ==
    /\ op' = "add_sub"
    /\ fn' = "+-"
    /\ res' = vec_op_vec("-", vec_op_vec("+", self, other), other)
    /\ fault' = "none"
    /\ UNCHANGED <<self, other, item>>

\* cross has no constraint on the length: below three items the reads and
\* the writes of the missing items are out of range
Cross ==
    /\ op' = "cross"
    /\ fn' = ""
    /\ \/ /\ Len(self) >= 3
          /\ res' = cross(self, other)
          /\ fault' = "none"
       \/ /\ Len(self) < 3
          /\ res' \in [1..Len(self) -> Junk]
          /\ fault' = "out_of_range"
       \/ /\ Len(self) < 3
          /\ res' = <<>>
          /\ fault' = "assertion_failed"
    /\ UNCHANGED <<self, other, item>>

ItemOpVec ==
    /\ op' = "item_op_vec"
    /\ \E f \in Operators :
          /\ fn' = f
          /\ res' = item_op_vec(f, item, self).value
          /\ fault' = item_op_vec(f, item, self).fault
    /\ UNCHANGED <<self, other, item>>

ItemOpVec2 ==
    /\ op' = "item_op_vec_v2"
    /\ \E f \in Operators :
          /\ fn' = f
          /\ res' = item_op_vec_v2(f, item, self).value
          /\ fault' = item_op_vec_v2(f, item, self).fault
    /\ UNCHANGED <<self, other, item>>

NextVec == AddSub \/ Cross \/ ItemOpVec \/ ItemOpVec2

SpecVec == InitVec /\ [][NextVec]_vars

\* C1: for vectors a and b of one length, (a + b) - b equals a item by item.
C1_AddThenSubtract ==
    op = "add_sub" =>
        /\ Len(res) = Len(self)
        /\ \A i \in 1..Len(self) : res[i] = self[i]

\* the sum of some item overflowed on the way and b is not zero
C1_Witness ==
    /\ op = "add_sub"
    /\ Len(self) = 3
    /\ \E i \in 1..3 : other[i] # 0 /\ self[i] + other[i] > IntMax
    /\ res = self

\* C9: for vectors a and b of three items, a.cross(b) is
\* (a1*b2 - a2*b1 cyclically) and equals -(b.cross(a)) item by item.
C9_CrossAntisymmetric ==
    (op = "cross" /\ Len(self) = 3) =>
        /\ res = neg(cross(other, self))
        /\ res[1] = Wrap(Wrap(self[2] * other[3]) - Wrap(self[3] * other[2]))
        /\ res[2] = Wrap(Wrap(self[3] * other[1]) - Wrap(self[1] * other[3]))
        /\ res[3] = Wrap(Wrap(self[1] * other[2]) - Wrap(self[2] * other[1]))

\* the cross product of two vectors of three items is not the zero vector
C9_Witness ==
    /\ op = "cross"
    /\ Len(self) = 3
    /\ fault = "none"
    /\ \A i \in 1..3 : res[i] # 0

\* C10: item op vec yields, for each of +, - and *, the vector of
\* item op self[i], with the item on the left.
C10_ReflectedOperators ==
    op \in {"item_op_vec", "item_op_vec_v2"} =>
        /\ fault = "none"
        /\ Len(res) = Len(self)
        /\ \A i \in 1..Len(self) :
              /\ fn = "+" => res[i] = Wrap(item + self[i])
              /\ fn = "-" => res[i] = Wrap(item - self[i])
              /\ fn = "*" => res[i] = Wrap(item * self[i])

(***************************************************************************)
(* vec op item (__VEC_OP_ITEM_ON_OP_ABLE): res[i] = data[i] op o.  The     *)
(* items of a container of containers are containers, so data[i] op o is   *)
(* the same operator one level down; depth is the number of levels above   *)
(* the scalar items (vec::dim).                                            *)
(***************************************************************************)
RECURSIVE vec_op_item(_, _, _, _)
vec_op_item_firstItem(f, depth, d, o) ==
    IF depth = 0 THEN ApplyOp(f, d, o)
    ELSE [i \in 1..Len(d) |-> vec_op_item(f, depth - 1, d[1], o)]

vec_op_item(f, depth, d, o) ==
    IF depth = 0 THEN ApplyOp(f, d, o)
    ELSE [i \in 1..Len(d) |-> vec_op_item(f, depth - 1, d[i], o)]

(***************************************************************************)
(* Specification SpecContainers: a flat container (self), a container of   *)
(* containers (other) and a scalar (item).                                 *)
(***************************************************************************)
InitContainers ==
    /\ \/ /\ \E n \in 1..MaxDim : self \in VecOperands(n)
          /\ other = CountMat(2, 3)
          /\ item = 2
       \/ /\ self = CountVec(3)
          /\ \E sh \in Shapes : other \in MatOperands(sh[1], sh[2])
          /\ item = 2
       \/ /\ self \in BaseVecs(3)
          /\ other \in BaseMats(2, 3)
          /\ item \in ItemRange
    /\ res = <<>>
    /\ op = "none"
    /\ fn = ""
    /\ fault = "none"

\* self op item
VecOpItem ==
    /\ op' = "vec_op_item"
    /\ \E f \in Operators :
          /\ fn' = f
          /\ res' = vec_op_item(f, 1, self, item)
    /\ fault' = "none"
    /\ UNCHANGED <<self, other, item>>

\* other op item
VecVecOpItem ==
    /\ op' = "vecvec_op_item"
    /\ \E f \in Operators :
          /\ fn' = f
          /\ res' = vec_op_item(f, 2, other, item)
    /\ fault' = "none"
    /\ UNCHANGED <<self, other, item>>

NextContainers == VecOpItem \/ VecVecOpItem

SpecContainers == InitContainers /\ [][NextContainers]_vars

\* x op y for the operator token of the last call, in the item type
Combined(x, y) ==
    CASE fn = "+" -> Wrap(x + y)
      [] fn = "-" -> Wrap(x - y)
      [] fn = "*" -> Wrap(x * y)

\* C11: container op scalar combines every leaf item with the same scalar:
\* (v op s)[i] = v[i] op s for a flat container and
\* (v op s)[i][j] = v[i][j] op s for a container of containers.
C11_Broadcast ==
    /\ op = "vec_op_item" =>
          /\ Len(res) = Len(self)
          /\ \A i \in 1..Len(self) : res[i] = Combined(self[i], item)
    /\ op = "vecvec_op_item" =>
          /\ Len(res) = Len(other)
          /\ \A i \in 1..Len(other) :
                /\ Len(res[i]) = Len(other[i])
                /\ \A j \in 1..Len(other[i]) :
                      res[i][j] = Combined(other[i][j], item)

\* a scalar other than 0 and 1 has been combined with a container of
\* containers whose rows differ, and the result differs from the operand
C11_Witness ==
    /\ op = "vecvec_op_item"
    /\ fn = "*"
    /\ item = 2
    /\ Len(other) = 3
    /\ other[1] # other[2]
    /\ res # other

(***************************************************************************)
(* vec op vec (__VEC_OP_VEC_ON_EQ_LENGTH) for the comparison operators,    *)
(* and the operator as the later revisions declare it.                     *)
(***************************************************************************)
Comparisons == {"==", "!=", "<", ">", "<=", ">="}

\* the comparison operators of the item type; the result is a bool
ApplyCmp_notEqualAsEqual(f, x, y) ==
    CASE f = "==" -> x = y
      [] f = "!=" -> x = y
      [] f = "<"  -> x < y
      [] f = ">"  -> x > y
      [] f = "<=" -> x <= y
      [] f = ">=" -> x >= y

ApplyCmp(f, x, y) ==
    CASE f = "==" -> x = y
      [] f = "!=" -> x # y
      [] f = "<"  -> x < y
      [] f = ">"  -> x > y
      [] f = "<=" -> x <= y
      [] f = ">=" -> x >= y

\* data[i] op o[i] for any operator of the macro
Apply(f, x, y) == IF f \in Comparisons THEN ApplyCmp(f, x, y) ELSE ApplyOp(f, x, y)

\* src/mobject/vec.hpp: operator op(const Self<_OTp>& o), the argument is a
\* container of the same length; res[i] = data[i] op o.data[i].  An argument
\* of another length is not a Self<_OTp>: the call falls to the item
\* operators, whose bodies do not compile for it
vec_op_vec_eq(f, d, o) ==
    IF Len(o) = Len(d)
    THEN [fault |-> "none",
          value |-> [i \in 1..Len(d) |-> Apply(f, d[i], o[i])]]
    ELSE [fault |-> "ill_formed", value |-> <<>>]

\* later revisions: operator op(const _OTp& o) requires(dim ==
\* VecInfo<_OTp>::dim); the loop runs over _length and reads o[i]
vec_op_vec_v2(f, d, o, junk) ==
    [i \in 1..Len(d) |-> Apply(f, d[i], ReadItem(o, i, junk))]

\* the indices i < _length that are not indices of the argument
PastArgument(d, o) == {i \in 1..Len(d) : i \notin DOMAIN o}

(***************************************************************************)
(* Specification SpecPairs: self op other for two flat containers of any   *)
(* two lengths.                                                            *)
(***************************************************************************)
InitPairs ==
    /\ \E n \in 1..MaxDim, m \in 1..MaxDim :
          \/ /\ n = m
             /\ self \in VecOperands(n)
             /\ other \in {CountVec(m), ExtremeVec(m)}
          \/ /\ n = m
             /\ self \in {CountVec(n), ExtremeVec(n)}
             /\ other \in VecOperands(m)
          \/ /\ n # m
             /\ self \in {CountVec(n), ExtremeVec(n)}
             /\ other \in {CountVec(m), ExtremeVec(m)}
    /\ item = 0
    /\ res = <<>>
    /\ op = "none"
    /\ fn = ""
    /\ fault = "none"

VecOpVec ==
    /\ op' = "vec_op_vec"
    /\ \E f \in Operators \cup Comparisons :
          /\ fn' = f
          /\ res' = vec_op_vec_eq(f, self, other).value
          /\ fault' = vec_op_vec_eq(f, self, other).fault
    /\ UNCHANGED <<self, other, item>>

VecOpVec2 ==
    /\ op' = "vec_op_vec_v2"
    /\ \E f \in Operators \cup Comparisons :
          /\ fn' = f
          /\ \/ /\ PastArgument(self, other) = {}
                /\ res' = vec_op_vec_v2(f, self, other, <<>>)
                /\ fault' = "none"
             \/ /\ PastArgument(self, other) # {}
                /\ \E junk \in [PastArgument(self, other) -> Junk] :
                      res' = vec_op_vec_v2(f, self, other, junk)
                /\ fault' = "out_of_range"
             \/ /\ PastArgument(self, other) # {}
                /\ res' = <<>>
                /\ fault' = "assertion_failed"
    /\ UNCHANGED <<self, other, item>>

NextPairs == VecOpVec \/ VecOpVec2

SpecPairs == InitPairs /\ [][NextPairs]_vars

\* C12: for containers of equal length and each comparison operator, a cmp b
\* is a container of the same length whose item i is the boolean
\* a[i] cmp b[i].
C12_ComparisonsElementwise ==
    (/\ op \in {"vec_op_vec", "vec_op_vec_v2"}
     /\ fn \in Comparisons
     /\ Len(self) = Len(other)) =>
        /\ Len(res) = Len(self)
        /\ \A i \in 1..Len(self) :
              /\ res[i] \in BOOLEAN
              /\ fn = "==" => (res[i] <=> self[i] = other[i])
              /\ fn = "!=" => (res[i] <=> self[i] # other[i])
              /\ fn = "<"  => (res[i] <=> self[i] < other[i])
              /\ fn = ">"  => (res[i] <=> self[i] > other[i])
              /\ fn = "<=" => (res[i] <=> self[i] <= other[i])
              /\ fn = ">=" => (res[i] <=> self[i] >= other[i])

\* two containers of three items were compared with != and the result has
\* both a true and a false item
C12_Witness ==
    /\ op = "vec_op_vec"
    /\ fn = "!="
    /\ Len(self) = 3
    /\ Len(other) = 3
    /\ \E i \in 1..3, j \in 1..3 : res[i] /\ ~res[j]

\* C13: a pair of containers of different lengths is rejected at compile
\* time and never reaches the element-wise loop.
C13_DifferentLengthsRejected ==
    (/\ op \in {"vec_op_vec", "vec_op_vec_v2"}
     /\ Len(self) # Len(other)) => fault = "ill_formed"

(***************************************************************************)
(* vec(const _Tp1& arg1, const _T&... args) and vec(const T& fill_value).  *)
(***************************************************************************)
\* the explicit fill constructor: data[i] = fill_value for every i
vec_fill(length, fill_value) == [i \in 1..length |-> fill_value]

\* the positional constructor: data[0] = arg1; ((data[++i] = args), ...).
\* data has no initializer, so the items after the last argument keep what
\* the storage held (before); arguments after the last item are written
\* past the array and are not items of the container
vec_from_args(length, args, before) ==
    [i \in 1..length |-> IF i <= Len(args) THEN args[i] ELSE before[i]]

\* the requires clause of the positional constructor: every argument is
\* convertible to the item type; the number of arguments is not constrained
ArgsAccepted(length, args) == Len(args) >= 1

\* one more argument than the longest named container has items
MaxArgs == MaxDim + 1

(***************************************************************************)
(* Specification SpecArgs: constructing vec<_Tp, Len(self)> from the       *)
(* arguments other, at run time and in a constant expression.              *)
(***************************************************************************)
InitArgs ==
    /\ \E n \in 1..MaxDim, k \in 1..MaxArgs :
          /\ self = vec(n)
          /\ other \in VecOperands(k)
    /\ item = 0
    /\ res = <<>>
    /\ op = "none"
    /\ fn = ""
    /\ fault = "none"

\* vec<_Tp, n> v(args...) evaluated at run time
Construct ==
    /\ ArgsAccepted(Len(self), other)
    /\ op' = "construct"
    /\ fn' = ""
    /\ \/ /\ Len(other) = 1
          /\ res' = vec_fill(Len(self), other[1])
          /\ fault' = "none"
       \/ /\ Len(other) > 1
          /\ \E before \in [(Len(other) + 1)..Len(self) -> Junk] :
                res' = vec_from_args(Len(self), other, before)
          /\ fault' = IF Len(other) < Len(self) THEN "indeterminate"
                      ELSE IF Len(other) > Len(self) THEN "out_of_range"
                      ELSE "none"
    /\ UNCHANGED <<self, other, item>>

\* constexpr vec<_Tp, n> v(args...): a constant expression may neither
\* write past the array nor leave an item uninitialized
ConstructConstexpr ==
    /\ ArgsAccepted(Len(self), other)
    /\ op' = "construct_constexpr"
    /\ fn' = ""
    /\ \/ /\ Len(other) = 1
          /\ res' = vec_fill(Len(self), other[1])
          /\ fault' = "none"
       \/ /\ Len(other) = Len(self)
          /\ Len(other) > 1
          /\ res' = vec_from_args(Len(self), other, <<>>)
          /\ fault' = "none"
       \/ /\ Len(other) # Len(self)
          /\ Len(other) > 1
          /\ res' = <<>>
          /\ fault' = "ill_formed"
    /\ UNCHANGED <<self, other, item>>

NextArgs == Construct \/ ConstructConstexpr

SpecArgs == InitArgs /\ [][NextArgs]_vars

\* C14: constructing a container of N items from k > 1 positional scalars
\* is accepted only when k = N, and then item i is the i-th argument; any
\* other k is rejected at compile time.
C14_ArgumentCount ==
    (op \in {"construct", "construct_constexpr"} /\ Len(other) > 1) =>
        IF Len(other) = Len(self)
        THEN fault = "none" /\ res = other
        ELSE fault = "ill_formed"

(***************************************************************************)
(* cross on containers of other lengths (specification SpecVec).           *)
(***************************************************************************)
\* C15: cross on a container whose length is not 3 is rejected at compile
\* time, so cross never reads an index >= length.
C15_CrossOnlyOnThree ==
    (op = "cross" /\ Len(self) # 3) => fault = "ill_formed"

(***************************************************************************)
(* any(), every(), all() on containers of bool; depth is vec::dim.         *)
(***************************************************************************)
RECURSIVE any(_, _)
RECURSIVE anyLoop(_, _, _)
RECURSIVE every(_, _)
RECURSIVE everyLoop(_, _, _)
\* the for loop of any() from item i on: return true at the first item that
\* is true (ItemType convertible to bool) or whose any() is true (ItemType
\* a container); return false after the last item
anyLoop(depth, d, i) ==
    IF i > Len(d) THEN FALSE
    ELSE IF (IF depth = 1 THEN d[i] ELSE any(depth - 1, d[i])) THEN TRUE
    ELSE anyLoop(depth, d, i + 1)

any(depth, d) == anyLoop(depth, d, 1)

\* the for loop of every() from item i on
everyLoop(depth, d, i) ==
    IF i > Len(d) THEN TRUE
    ELSE IF ~(IF depth = 1 THEN d[i] ELSE every(depth - 1, d[i])) THEN FALSE
    ELSE everyLoop(depth, d, i + 1)

every_asAny(depth, d) == any(depth, d)

every(depth, d) == everyLoop(depth, d, 1)

\* all(): return every()
all(depth, d) == every(depth, d)

(***************************************************************************)
(* Specification SpecBool: a flat container of bool (self) and a container *)
(* of containers of bool (other).                                          *)
(***************************************************************************)

\* the flat containers of n items of type bool
BoolVecs(n) == [1..n -> BOOLEAN]

\* the containers of r containers of c items of type bool
BoolMats(r, c) == [1..r -> BoolVecs(c)]

InitBool ==
    /\ \/ /\ \E n \in 1..MaxDim : self \in BoolVecs(n)
          /\ other = <<<<TRUE, FALSE, TRUE>>, <<FALSE, FALSE, FALSE>>>>
       \/ /\ self = <<TRUE, FALSE, TRUE>>
          /\ \E r \in 1..BoolDim, c \in 1..BoolDim : other \in BoolMats(r, c)
    /\ item = 0
    /\ res = <<>>
    /\ op = "none"
    /\ fn = ""
    /\ fault = "none"

Methods == {"any", "every", "all"}

Test(depth, d, method) ==
    CASE method = "any" -> any(depth, d)
      [] method = "every" -> every(depth, d)
      [] method = "all" -> all(depth, d)

\* self.any(), self.every(), self.all()
VecTest ==
    /\ \E method \in Methods :
          /\ op' = method
          /\ res' = Test(1, self, method)
    /\ fn' = ""
    /\ fault' = "none"
    /\ UNCHANGED <<self, other, item>>

\* other.any(), other.every(), other.all()
VecVecTest ==
    /\ \E method \in Methods :
          /\ op' = "vecvec_" \o method
          /\ res' = Test(2, other, method)
    /\ fn' = ""
    /\ fault' = "none"
    /\ UNCHANGED <<self, other, item>>

NextBool == VecTest \/ VecVecTest

SpecBool == InitBool /\ [][NextBool]_vars

\* C16: on a flat container of bool any() is true iff some item is true and
\* every() iff all items are true; on a container of containers any() is
\* the OR over the rows of row.any() and every() the AND over the rows of
\* row.every(); all() returns what every() returns.
C16_AnyEveryAll ==
    /\ op = "any" => (res <=> \E i \in 1..Len(self) : self[i])
    /\ op = "every" => (res <=> \A i \in 1..Len(self) : self[i])
    /\ op = "all" => (res <=> \A i \in 1..Len(self) : self[i])
    /\ op = "vecvec_any" =>
          (res <=> \E r \in 1..Len(other) :
                      \E j \in 1..Len(other[r]) : other[r][j])
    /\ op = "vecvec_every" =>
          (res <=> \A r \in 1..Len(other) :
                      \A j \in 1..Len(other[r]) : other[r][j])
    /\ op = "vecvec_all" =>
          (res <=> \A r \in 1..Len(other) :
                      \A j \in 1..Len(other[r]) : other[r][j])

\* every() returned false on a container of containers that has a row of
\* true items only and a later row with a false item
C16_Witness ==
    /\ op = "vecvec_every"
    /\ Len(other) = 3
    /\ \A j \in 1..Len(other[1]) : other[1][j]
    /\ \E j \in 1..Len(other[3]) : ~other[3][j]
    /\ res = FALSE

(***************************************************************************)
(* Types.  A type is a sequence: the scalar type first, then the lengths   *)
(* of the containers around it from the innermost to the outermost, so     *)
(* vec<vec<float, 2>, 3> is <<"float", 2, 3>> and float is <<"float">>.    *)
(***************************************************************************)
\* the scalar types the library declares container aliases for
ScalarTypes == {"float", "double", "int", "long", "bool"}

\* the concept Vec: the type is an instantiation of vec
Vec(t) == Len(t) > 1

\* vec::ItemType = _Tp
ItemType(t) == SubSeq(t, 1, Len(t) - 1)

RECURSIVE VecInfo_dim(_)
RECURSIVE VecInfo_DataType(_)
\* VecInfo<_Tp>::dim
VecInfo_dim_oneLevel(t) == IF Vec(t) THEN 1 ELSE 0

VecInfo_dim(t) == IF Vec(t) THEN VecInfo_dim(ItemType(t)) + 1 ELSE 0

\* VecInfo<_Tp>::DataType: the type of VecInfo<ItemType>::Zero for a
\* container, of _Tp{} otherwise
VecInfo_DataType(t) == IF Vec(t) THEN VecInfo_DataType(ItemType(t)) ELSE t

\* vec::dim and vec::DataType
vec_dim(t) == VecInfo_dim(ItemType(t)) + 1
vec_DataType(t) == VecInfo_DataType(ItemType(t))

RECURSIVE Nestings(_)
\* the types with at most depth containers around a scalar type
Nestings(depth) ==
    IF depth = 0 THEN {<<s>> : s \in ScalarTypes}
    ELSE LET N == Nestings(depth - 1)
         IN  N \cup {Append(t, n) : t \in N, n \in 1..MaxDim}

(***************************************************************************)
(* Specification SpecTypes: the compile-time properties of the type self.  *)
(***************************************************************************)
InitTypes ==
    /\ self \in Nestings(MaxDepth)
    /\ other = <<>>
    /\ item = 0
    /\ res = <<>>
    /\ op = "none"
    /\ fn = ""
    /\ fault = "none"

\* VecInfo<self>::dim and VecInfo<self>::DataType
VecInfoOf ==
    /\ op' = "VecInfo"
    /\ fn' = ""
    /\ res' = [dim |-> VecInfo_dim(self), DataType |-> VecInfo_DataType(self)]
    /\ fault' = "none"
    /\ UNCHANGED <<self, other, item>>

\* self::dim and self::DataType, self a container type
VecMembers ==
    /\ Vec(self)
    /\ op' = "vec_members"
    /\ fn' = ""
    /\ res' = [dim |-> vec_dim(self), DataType |-> vec_DataType(self)]
    /\ fault' = "none"
    /\ UNCHANGED <<self, other, item>>

NextTypes == VecInfoOf \/ VecMembers

SpecTypes == InitTypes /\ [][NextTypes]_vars

\* C17: a nesting of d >= 1 containers over a scalar type S has dim = d and
\* DataType = S; for a type that is not a container VecInfo reports dim 0
\* and the type itself as DataType.
C17_DimAndDataType ==
    /\ op = "vec_members" =>
          /\ res.dim = Len(self) - 1
          /\ res.DataType = <<self[1]>>
    /\ op = "VecInfo" =>
          /\ res.dim = Len(self) - 1
          /\ res.DataType = <<self[1]>>
          /\ Len(self) = 1 => res.dim = 0 /\ res.DataType = self

\* the members of a container of containers of containers were read
C17_Witness ==
    /\ op = "vec_members"
    /\ Len(self) = 4
    /\ res.dim = 3
    /\ res.DataType = <<"float">>

(***************************************************************************)
(* slice<_pos, __length>() and slice<__length>(): the container seen       *)
(* through a pointer to data + _pos.                                       *)
(***************************************************************************)
\* *(vec<_Tp, __length>*)(data + _pos): item k is data[_pos + k]
slice_fromData(d, pos, length) == [k \in 1..length |-> d[k]]

slice(d, pos, length) == [k \in 1..length |-> d[pos + k]]

\* *(vec<_Tp, __length>*)(data)
slice_from_start(d, length) == [k \in 1..length |-> d[k]]

(***************************************************************************)
(* Specification SpecSlice: self.slice<other[1], other[2]>() and           *)
(* self.slice<other[2]>().                                                 *)
(***************************************************************************)
InitSlice ==
    /\ \E n \in 1..MaxDim :
          /\ self \in VecOperands(n)
          /\ other \in (0..n) \X (0..n)
    /\ item = 0
    /\ res = <<>>
    /\ op = "none"
    /\ fn = ""
    /\ fault = "none"

\* requires(_pos + __length <= _length); the result type vec<_Tp, __length>
\* requires(__length > 0)
Slice ==
    /\ other[1] + other[2] <= Len(self)
    /\ other[2] > 0
    /\ op' = "slice"
    /\ fn' = ""
    /\ res' = slice(self, other[1], other[2])
    /\ fault' = "none"
    /\ UNCHANGED <<self, other, item>>

\* requires(__length <= _length)
SliceFromStart ==
    /\ other[2] <= Len(self)
    /\ other[2] > 0
    /\ op' = "slice_from_start"
    /\ fn' = ""
    /\ res' = slice_from_start(self, other[2])
    /\ fault' = "none"
    /\ UNCHANGED <<self, other, item>>

NextSlice == Slice \/ SliceFromStart

SpecSlice == InitSlice /\ [][NextSlice]_vars

\* C18: for pos + len <= N, v.slice<pos, len>() has len items and item k is
\* v[pos + k]; v.slice<len>() equals v.slice<0, len>().
C18_Slice ==
    /\ op = "slice" =>
          /\ Len(res) = other[2]
          /\ \A k \in 0..(other[2] - 1) : res[k + 1] = self[other[1] + k + 1]
    /\ op = "slice_from_start" =>
          /\ Len(res) = other[2]
          /\ res = slice(self, 0, other[2])

\* a slice of two items that starts after the first item and whose items
\* differ from the first two of the container
C18_Witness ==
    /\ op = "slice"
    /\ other[1] = 2
    /\ other[2] = 2
    /\ res[1] # self[1]
    /\ res[2] # self[2]

(***************************************************************************)
(* quaternion<_Tp>: a vec<_Tp, 4> whose items are read through r(), i(),   *)
(* j(), k().                                                               *)
(***************************************************************************)
\* the accessors: r() is data[3], i() data[0], j() data[1], k() data[2]
q_r(q) == q[4]
q_i(q) == q[1]
q_j(q) == q[2]
q_k(q) == q[3]

\* quaternion(_Tp r, _Tp i, _Tp j, _Tp k)
quaternion(qr, qi, qj, qk) ==
    [[[[vec(4) EXCEPT ![4] = qr] EXCEPT ![2] = qj] EXCEPT ![1] = qi]
        EXCEPT ![3] = qk]

\* x * y, x + y, x - y in the item type
Mul(x, y) == Wrap(x * y)
Add(x, y) == Wrap(x + y)
Sub(x, y) == Wrap(x - y)

\* x / y of two integers: the quotient truncated towards zero
Quot(x, y) ==
    LET ax == IF x < 0 THEN 0 - x ELSE x
        ay == IF y < 0 THEN 0 - y ELSE y
    IN  Wrap(IF (x < 0) = (y < 0) THEN ax \div ay ELSE 0 - (ax \div ay))

\* operator*(const quaternion<_Tp>& other)
quaternion_mul_signSlip(p, q) ==
    quaternion(
        Sub(Sub(Sub(Mul(q_r(p), q_r(q)), Mul(q_i(p), q_i(q))), Mul(q_j(p), q_j(q))),
            Mul(q_k(p), q_k(q))),
        Sub(Add(Add(Mul(q_r(p), q_i(q)), Mul(q_i(p), q_r(q))), Mul(q_j(p), q_k(q))),
            Mul(q_k(p), q_j(q))),
        Add(Sub(Sub(Mul(q_r(p), q_j(q)), Mul(q_i(p), q_k(q))), Mul(q_j(p), q_r(q))),
            Mul(q_k(p), q_i(q))),
        Add(Sub(Add(Mul(q_r(p), q_k(q)), Mul(q_i(p), q_j(q))), Mul(q_j(p), q_i(q))),
            Mul(q_k(p), q_r(q))))

quaternion_mul(p, q) ==
    quaternion(
        Sub(Sub(Sub(Mul(q_r(p), q_r(q)), Mul(q_i(p), q_i(q))), Mul(q_j(p), q_j(q))),
            Mul(q_k(p), q_k(q))),
        Sub(Add(Add(Mul(q_r(p), q_i(q)), Mul(q_i(p), q_r(q))), Mul(q_j(p), q_k(q))),
            Mul(q_k(p), q_j(q))),
        Add(Add(Sub(Mul(q_r(p), q_j(q)), Mul(q_i(p), q_k(q))), Mul(q_j(p), q_r(q))),
            Mul(q_k(p), q_i(q))),
        Add(Sub(Add(Mul(q_r(p), q_k(q)), Mul(q_i(p), q_j(q))), Mul(q_j(p), q_i(q))),
            Mul(q_k(p), q_r(q))))

\* norm(): r*r + i*i + j*j + k*k
norm(q) ==
    Add(Add(Add(Mul(q_r(q), q_r(q)), Mul(q_i(q), q_i(q))), Mul(q_j(q), q_j(q))),
        Mul(q_k(q), q_k(q)))

\* operator/(const quaternion<_Tp>& other)
quaternion_div(p, q) ==
    quaternion(
        Quot(Add(Add(Add(Mul(q_r(p), q_r(q)), Mul(q_i(p), q_i(q))), Mul(q_j(p), q_j(q))),
                 Mul(q_k(p), q_k(q))), norm(q)),
        Quot(Add(Sub(Sub(Mul(q_r(p), q_i(q)), Mul(q_i(p), q_r(q))), Mul(q_j(p), q_k(q))),
                 Mul(q_k(p), q_j(q))), norm(q)),
        Quot(Sub(Sub(Add(Mul(q_r(p), q_j(q)), Mul(q_i(p), q_k(q))), Mul(q_j(p), q_r(q))),
                 Mul(q_k(p), q_i(q))), norm(q)),
        Quot(Sub(Add(Sub(Mul(q_r(p), q_k(q)), Mul(q_i(p), q_j(q))), Mul(q_j(p), q_i(q))),
                 Mul(q_k(p), q_r(q))), norm(q)))

\* inverse(): r / norm, -i / norm, -j / norm, -k / norm
inverse(q) ==
    quaternion(Quot(q_r(q), norm(q)), Quot(Negate(q_i(q)), norm(q)),
               Quot(Negate(q_j(q)), norm(q)), Quot(Negate(q_k(q)), norm(q)))

(***************************************************************************)
(* Specification SpecQuat: self * other, self / other and                  *)
(* self * other.inverse() for two quaternion<int>, and self + item,        *)
(* self - item, item + self, item - self for an int item.                  *)
(***************************************************************************)
\* +-1, +-i, +-j, +-k
UnitQuats ==
    {quaternion(s, 0, 0, 0) : s \in {-1, 1}} \cup
    {quaternion(0, s, 0, 0) : s \in {-1, 1}} \cup
    {quaternion(0, 0, s, 0) : s \in {-1, 1}} \cup
    {quaternion(0, 0, 0, s) : s \in {-1, 1}}

SmallQuats == {quaternion(a, b, c, d) : a \in Elem, b \in Elem, c \in Elem, d \in Elem}

\* components whose products and sums overflow the item type
ExtremeQuats ==
    {quaternion(IntMax, IntMin, IntMax, 1), quaternion(IntMin, IntMin, 2, IntMax)}

InitQuat ==
    /\ \/ /\ self \in SmallQuats \cup ExtremeQuats
          /\ other \in UnitQuats
          /\ item = 0
       \/ /\ self \in UnitQuats
          /\ other \in SmallQuats \cup ExtremeQuats
          /\ item = 0
       \/ /\ self = quaternion(1, 2, 3, 4)
          /\ other = quaternion(5, 6, 7, 8)
          /\ item = 0
       \/ /\ self \in SmallQuats \cup ExtremeQuats
          /\ other = quaternion(1, 0, 0, 0)
          /\ item \in Elem \cup {IntMin, IntMax}
    /\ res = <<>>
    /\ op = "none"
    /\ fn = ""
    /\ fault = "none"

Multiply ==
    /\ op' = "quaternion_mul"
    /\ fn' = "*"
    /\ res' = quaternion_mul(self, other)
    /\ fault' = "none"
    /\ UNCHANGED <<self, other, item>>

\* an integer division by a norm of zero has no result
Divide ==
    /\ op' = "quaternion_div"
    /\ fn' = "/"
    /\ \/ /\ norm(other) # 0
          /\ res' = quaternion_div(self, other)
          /\ fault' = "none"
       \/ /\ norm(other) = 0
          /\ res' = <<>>
          /\ fault' = "division_by_zero"
    /\ UNCHANGED <<self, other, item>>

MultiplyInverse ==
    /\ op' = "quaternion_mul_inverse"
    /\ fn' = "*"
    /\ \/ /\ norm(other) # 0
          /\ res' = quaternion_mul(self, inverse(other))
          /\ fault' = "none"
       \/ /\ norm(other) = 0
          /\ res' = <<>>
          /\ fault' = "division_by_zero"
    /\ UNCHANGED <<self, other, item>>

\* operator+(const _ItemType& other): quaternion + scalar
quaternion_add_item(q, s) == quaternion(Add(q_r(q), s), q_i(q), q_j(q), q_k(q))

\* operator-(const _ItemType& other): quaternion - scalar
quaternion_sub_item(q, s) == quaternion(Sub(q_r(q), s), q_i(q), q_j(q), q_k(q))

\* operator+(const _Tp& other, const quaternion<_ItemType>& v): scalar + quaternion
item_add_quaternion(s, q) == quaternion(Add(s, q_r(q)), q_i(q), q_j(q), q_k(q))

\* operator-(const _Tp& other, const quaternion<_ItemType>& v): scalar - quaternion
item_sub_quaternion_keepVector(s, q) ==
    quaternion(Sub(s, q_r(q)), q_i(q), q_j(q), q_k(q))

item_sub_quaternion(s, q) ==
    quaternion(Sub(s, q_r(q)), Negate(q_i(q)), Negate(q_j(q)), Negate(q_k(q)))

QuatPlusItem ==
    /\ op' = "quaternion_add_item"
    /\ fn' = "+"
    /\ res' = quaternion_add_item(self, item)
    /\ fault' = "none"
    /\ UNCHANGED <<self, other, item>>

QuatMinusItem ==
    /\ op' = "quaternion_sub_item"
    /\ fn' = "-"
    /\ res' = quaternion_sub_item(self, item)
    /\ fault' = "none"
    /\ UNCHANGED <<self, other, item>>

ItemPlusQuat ==
    /\ op' = "item_add_quaternion"
    /\ fn' = "+"
    /\ res' = item_add_quaternion(item, self)
    /\ fault' = "none"
    /\ UNCHANGED <<self, other, item>>

ItemMinusQuat ==
    /\ op' = "item_sub_quaternion"
    /\ fn' = "-"
    /\ res' = item_sub_quaternion(item, self)
    /\ fault' = "none"
    /\ UNCHANGED <<self, other, item>>

NextQuat ==
    \/ Multiply
    \/ Divide
    \/ MultiplyInverse
    \/ QuatPlusItem
    \/ QuatMinusItem
    \/ ItemPlusQuat
    \/ ItemMinusQuat

SpecQuat == InitQuat /\ [][NextQuat]_vars

\* C19: p * q is the Hamilton product in terms of r(), i(), j(), k():
\* r = pr*qr - pi*qi - pj*qj - pk*qk, i = pr*qi + pi*qr + pj*qk - pk*qj,
\* j = pr*qj - pi*qk + pj*qr + pk*qi, k = pr*qk + pi*qj - pj*qi + pk*qr,
\* so that i*j = k, j*k = i, k*i = j, i*i = -1 and j*i = -k.
C19_HamiltonProduct ==
    op = "quaternion_mul" =>
        LET pr == self[4]   pi == self[1]   pj == self[2]   pk == self[3]
            qr == other[4]  qi == other[1]  qj == other[2]  qk == other[3]
            I == <<1, 0, 0, 0>>
            J == <<0, 1, 0, 0>>
            K == <<0, 0, 1, 0>>
        IN  /\ Len(res) = 4
            /\ res[4] = Wrap(pr * qr - pi * qi - pj * qj - pk * qk)
            /\ res[1] = Wrap(pr * qi + pi * qr + pj * qk - pk * qj)
            /\ res[2] = Wrap(pr * qj - pi * qk + pj * qr + pk * qi)
            /\ res[3] = Wrap(pr * qk + pi * qj - pj * qi + pk * qr)
            /\ (self = I /\ other = J) => res = K
            /\ (self = J /\ other = K) => res = I
            /\ (self = K /\ other = I) => res = J
            /\ (self = I /\ other = I) => res = <<0, 0, 0, -1>>
            /\ (self = J /\ other = I) => res = <<0, 0, -1, 0>>

\* (1 + 2i + 3j + 4k) * (5 + 6i + 7j + 8k) = -60 + 12i + 30j + 24k
C19_Witness ==
    /\ op = "quaternion_mul"
    /\ self = <<2, 3, 4, 1>>
    /\ other = <<6, 7, 8, 5>>
    /\ res = <<12, 30, 24, -60>>

\* C20: for every p and every unit divisor q (+-1, +-i, +-j, +-k), p / q
\* equals p * q.inverse() in all four components.
C20_DivisionIsMultiplyByInverse ==
    (/\ op = "quaternion_div"
     /\ other \in {<<0, 0, 0, 1>>, <<0, 0, 0, -1>>, <<1, 0, 0, 0>>,
                   <<-1, 0, 0, 0>>, <<0, 1, 0, 0>>, <<0, -1, 0, 0>>,
                   <<0, 0, 1, 0>>, <<0, 0, -1, 0>>}) =>
        /\ fault = "none"
        /\ res = quaternion_mul(self, inverse(other))

(***************************************************************************)
(* quaternion<double>: the item type is modelled by exact fractions        *)
(* <<numerator, denominator>> in lowest terms with a positive denominator. *)
(***************************************************************************)
RECURSIVE Gcd(_, _)
Gcd(a, b) == IF b = 0 THEN a ELSE Gcd(b, a % b)

Abs(x) == IF x < 0 THEN 0 - x ELSE x

Frac(n, d) ==
    LET g == Gcd(Abs(n), Abs(d))
    IN  IF d < 0 THEN <<(0 - n) \div g, (0 - d) \div g>> ELSE <<n \div g, d \div g>>

FAdd(x, y) == Frac(x[1] * y[2] + y[1] * x[2], x[2] * y[2])
FSub(x, y) == Frac(x[1] * y[2] - y[1] * x[2], x[2] * y[2])
FMul(x, y) == Frac(x[1] * y[1], x[2] * y[2])
FDiv(x, y) == Frac(x[1] * y[2], x[2] * y[1])
FNeg(x) == <<0 - x[1], x[2]>>
FGreater(x, y) == x[1] * y[2] > y[1] * x[2]

FZero == <<0, 1>>
FOne == <<1, 1>>
FTwo == <<2, 1>>
FQuarter == <<1, 4>>

\* operator*(const quaternion<_Tp>& other) for _Tp = double
quaternion_mul_d(p, q) ==
    quaternion(
        FSub(FSub(FSub(FMul(q_r(p), q_r(q)), FMul(q_i(p), q_i(q))),
                  FMul(q_j(p), q_j(q))), FMul(q_k(p), q_k(q))),
        FSub(FAdd(FAdd(FMul(q_r(p), q_i(q)), FMul(q_i(p), q_r(q))),
                  FMul(q_j(p), q_k(q))), FMul(q_k(p), q_j(q))),
        FAdd(FAdd(FSub(FMul(q_r(p), q_j(q)), FMul(q_i(p), q_k(q))),
                  FMul(q_j(p), q_r(q))), FMul(q_k(p), q_i(q))),
        FAdd(FSub(FAdd(FMul(q_r(p), q_k(q)), FMul(q_i(p), q_j(q))),
                  FMul(q_j(p), q_i(q))), FMul(q_k(p), q_r(q))))

\* norm() for _Tp = double
norm_d(q) ==
    FAdd(FAdd(FAdd(FMul(q_r(q), q_r(q)), FMul(q_i(q), q_i(q))), FMul(q_j(q), q_j(q))),
         FMul(q_k(q), q_k(q)))

\* inverse() for _Tp = double
inverse_d_noConjugate(q) ==
    quaternion(FDiv(q_r(q), norm_d(q)), FDiv(q_i(q), norm_d(q)),
               FDiv(q_j(q), norm_d(q)), FDiv(q_k(q), norm_d(q)))

inverse_d(q) ==
    quaternion(FDiv(q_r(q), norm_d(q)), FDiv(FNeg(q_i(q)), norm_d(q)),
               FDiv(FNeg(q_j(q)), norm_d(q)), FDiv(FNeg(q_k(q)), norm_d(q)))

(***************************************************************************)
(* Specification SpecQuatD: norm(), inverse(), to_mat() and from_mat() of  *)
(* a quaternion<double> self whose components are multiples of 1/2.        *)
(***************************************************************************)
Halves == {Frac(n, 2) : n \in (0 - ElemMax - 1)..(ElemMax + 1)}

InitQuatD ==
    /\ \E a \in Halves, b \in Halves, c \in Halves, d \in Halves :
           self = quaternion(a, b, c, d)
    /\ other = <<>>
    /\ item = 0
    /\ res = <<>>
    /\ op = "none"
    /\ fn = ""
    /\ fault = "none"

Norm ==
    /\ op' = "norm"
    /\ fn' = ""
    /\ res' = norm_d(self)
    /\ fault' = "none"
    /\ UNCHANGED <<self, other, item>>

\* a division by a norm of zero gives no finite result
Inverse ==
    /\ op' = "inverse"
    /\ fn' = ""
    /\ \/ /\ norm_d(self) # FZero
          /\ res' = inverse_d(self)
          /\ fault' = "none"
       \/ /\ norm_d(self) = FZero
          /\ res' = <<>>
          /\ fault' = "division_by_zero"
    /\ UNCHANGED <<self, other, item>>

TimesInverse ==
    /\ op' = "mul_inverse"
    /\ fn' = "*"
    /\ \/ /\ norm_d(self) # FZero
          /\ res' = quaternion_mul_d(self, inverse_d(self))
          /\ fault' = "none"
       \/ /\ norm_d(self) = FZero
          /\ res' = <<>>
          /\ fault' = "division_by_zero"
    /\ UNCHANGED <<self, other, item>>

\* to_mat() for T = double
to_mat(q) ==
    <<<<FSub(FSub(FOne, FMul(FMul(FTwo, q_j(q)), q_j(q))), FMul(FMul(FTwo, q_k(q)), q_k(q))),
        FSub(FMul(FMul(FTwo, q_i(q)), q_j(q)), FMul(FMul(FTwo, q_r(q)), q_k(q))),
        FAdd(FMul(FMul(FTwo, q_r(q)), q_j(q)), FMul(FMul(FTwo, q_i(q)), q_k(q)))>>,
      <<FAdd(FMul(FMul(FTwo, q_i(q)), q_j(q)), FMul(FMul(FTwo, q_r(q)), q_k(q))),
        FSub(FSub(FOne, FMul(FMul(FTwo, q_i(q)), q_i(q))), FMul(FMul(FTwo, q_k(q)), q_k(q))),
        FSub(FMul(FMul(FTwo, q_j(q)), q_k(q)), FMul(FMul(FTwo, q_r(q)), q_i(q)))>>,
      <<FSub(FMul(FMul(FTwo, q_r(q)), q_j(q)), FMul(FMul(FTwo, q_i(q)), q_k(q))),
        FAdd(FMul(FMul(FTwo, q_j(q)), q_k(q)), FMul(FMul(FTwo, q_r(q)), q_i(q))),
        FSub(FSub(FOne, FMul(FMul(FTwo, q_i(q)), q_i(q))), FMul(FMul(FTwo, q_j(q)), q_j(q)))>>>>

ToMat ==
    /\ op' = "to_mat"
    /\ fn' = ""
    /\ res' = to_mat(self)
    /\ fault' = "none"
    /\ UNCHANGED <<self, other, item>>

\* q.to_mat().T()
ToMatT ==
    /\ op' = "to_mat_T"
    /\ fn' = ""
    /\ res' = T(to_mat(self))
    /\ fault' = "none"
    /\ UNCHANGED <<self, other, item>>

\* std::sqrt of a fraction whose numerator and denominator are squares
IsSquare(x) == x[1] >= 0 /\ \E n \in 0..x[1] : \E d \in 1..x[2] : n * n = x[1] /\ d * d = x[2]
sqrt(x) ==
    <<CHOOSE n \in 0..x[1] : n * n = x[1], CHOOSE d \in 1..x[2] : d * d = x[2]>>

\* the branch from_mat(mat) takes: which of r, i, j, k it computes from S
Branch(m) ==
    LET tr == FAdd(FAdd(m[1][1], m[2][2]), m[3][3])
    IN  IF FGreater(tr, FZero) THEN "r"
        ELSE IF FGreater(m[1][1], m[2][2]) /\ FGreater(m[1][1], m[3][3]) THEN "i"
        ELSE IF FGreater(m[2][2], m[3][3]) THEN "j"
        ELSE "k"

\* the argument of std::sqrt in that branch
Radicand(m) ==
    LET tr == FAdd(FAdd(m[1][1], m[2][2]), m[3][3])
    IN  CASE Branch(m) = "r" -> FAdd(tr, FOne)
          [] Branch(m) = "i" -> FSub(FSub(FAdd(FOne, m[1][1]), m[2][2]), m[3][3])
          [] Branch(m) = "j" -> FSub(FSub(FAdd(FOne, m[2][2]), m[1][1]), m[3][3])
          [] Branch(m) = "k" -> FSub(FSub(FAdd(FOne, m[3][3]), m[1][1]), m[2][2])

\* from_mat(const mat<T, 3, 3>& mat) for T = double
from_mat(m) ==
    LET S == FMul(sqrt(Radicand(m)), FTwo)
    IN  CASE Branch(m) = "r" ->
                quaternion(FMul(FQuarter, S), FDiv(FSub(m[3][2], m[2][3]), S),
                           FDiv(FSub(m[1][3], m[3][1]), S), FDiv(FSub(m[2][1], m[1][2]), S))
          [] Branch(m) = "i" ->
                quaternion(FDiv(FSub(m[3][2], m[2][3]), S), FMul(FQuarter, S),
                           FDiv(FAdd(m[1][2], m[2][1]), S), FDiv(FAdd(m[1][3], m[3][1]), S))
          [] Branch(m) = "j" ->
                quaternion(FDiv(FSub(m[1][3], m[3][1]), S), FDiv(FAdd(m[1][2], m[2][1]), S),
                           FMul(FQuarter, S), FDiv(FAdd(m[2][3], m[3][2]), S))
          [] Branch(m) = "k" ->
                quaternion(FDiv(FSub(m[2][1], m[1][2]), S), FDiv(FAdd(m[1][3], m[3][1]), S),
                           FDiv(FAdd(m[2][3], m[3][2]), S), FMul(FQuarter, S))

\* from_mat(q.to_mat()), for the q whose square root is exact; S = 0 gives
\* no finite result
FromMatToMat ==
    /\ IsSquare(Radicand(to_mat(self)))
    /\ op' = "from_mat_to_mat"
    /\ fn' = ""
    /\ \/ /\ Radicand(to_mat(self)) # FZero
          /\ res' = from_mat(to_mat(self))
          /\ fault' = "none"
       \/ /\ Radicand(to_mat(self)) = FZero
          /\ res' = <<>>
          /\ fault' = "division_by_zero"
    /\ UNCHANGED <<self, other, item>>

NextQuatD == Norm \/ Inverse \/ TimesInverse \/ ToMat \/ ToMatT \/ FromMatToMat

SpecQuatD == InitQuatD /\ [][NextQuatD]_vars

\* C21: norm() is r^2 + i^2 + j^2 + k^2 with no square root; for a norm
\* other than zero inverse() is (r/norm, -i/norm, -j/norm, -k/norm), and
\* q * q.inverse() is the quaternion 1 (scalar part 1, vector part 0).
C21_NormAndInverse ==
    LET sq(x) == <<x[1] * x[1], x[2] * x[2]>>
        n == FAdd(sq(self[4]), FAdd(sq(self[1]), FAdd(sq(self[2]), sq(self[3]))))
    IN  /\ op = "norm" => res = n
        /\ (op = "inverse" /\ n # <<0, 1>>) =>
               /\ fault = "none"
               /\ res = <<FDiv(FNeg(self[1]), n), FDiv(FNeg(self[2]), n),
                          FDiv(FNeg(self[3]), n), FDiv(self[4], n)>>
        /\ (op = "mul_inverse" /\ n # <<0, 1>>) =>
               /\ fault = "none"
               /\ res = <<<<0, 1>>, <<0, 1>>, <<0, 1>>, <<1, 1>>>>

\* q = 1/2 + i - j + k/2 has norm 5/2 and q * q.inverse() = 1
C21_Witness ==
    /\ op = "mul_inverse"
    /\ self = <<<<1, 1>>, <<-1, 1>>, <<1, 2>>, <<1, 2>>>>
    /\ norm_d(self) = <<5, 2>>
    /\ res = <<<<0, 1>>, <<0, 1>>, <<0, 1>>, <<1, 1>>>>

\* C22: to_mat() of q = (r, i, j, k) is the standard rotation matrix with
\* rows [1-2j^2-2k^2, 2ij-2rk, 2ik+2rj], [2ij+2rk, 1-2i^2-2k^2, 2jk-2ri],
\* [2ik-2rj, 2jk+2ri, 1-2i^2-2j^2], so to_mat(q).T() is to_mat of the
\* conjugate (r, -i, -j, -k).
C22_ToMatIsRotationMatrix ==
    LET twice(x, y) == FMul(<<2, 1>>, FMul(x, y))
        one == <<1, 1>>
        Rotation(qr, qi, qj, qk) ==
            <<<<FSub(FSub(one, twice(qj, qj)), twice(qk, qk)),
                FSub(twice(qi, qj), twice(qr, qk)),
                FAdd(twice(qi, qk), twice(qr, qj))>>,
              <<FAdd(twice(qi, qj), twice(qr, qk)),
                FSub(FSub(one, twice(qi, qi)), twice(qk, qk)),
                FSub(twice(qj, qk), twice(qr, qi))>>,
              <<FSub(twice(qi, qk), twice(qr, qj)),
                FAdd(twice(qj, qk), twice(qr, qi)),
                FSub(FSub(one, twice(qi, qi)), twice(qj, qj))>>>>
    IN  /\ op = "to_mat" => res = Rotation(self[4], self[1], self[2], self[3])
        /\ op = "to_mat_T" =>
               res = Rotation(self[4], FNeg(self[1]), FNeg(self[2]), FNeg(self[3]))

\* C23: for every unit quaternion q among +-1, +-i, +-j, +-k and the
\* half-integer units (+-1/2, +-1/2, +-1/2, +-1/2), from_mat(q.to_mat())
\* equals q or -q in all four components.
C23_RoundTrip ==
    LET one == {<<0 - 1, 1>>, <<1, 1>>}
        zero == {<<0, 1>>}
        half == {<<0 - 1, 2>>, <<1, 2>>}
        Units == (one \X zero \X zero \X zero) \cup (zero \X one \X zero \X zero)
                 \cup (zero \X zero \X one \X zero) \cup (zero \X zero \X zero \X one)
                 \cup (half \X half \X half \X half)
    IN  (op = "from_mat_to_mat" /\ self \in Units) =>
            /\ fault = "none"
            /\ \/ res = self
               \/ res = [n \in 1..4 |-> FNeg(self[n])]

\* C24: for every scalar s and quaternion q, s + q and q + s have scalar
\* part s + q.r() and the vector part of q; q - s has scalar part q.r() - s
\* and the vector part of q; s - q has scalar part s - q.r() and the negated
\* vector part (-i, -j, -k).
C24_ScalarPlusMinus ==
    /\ op \in {"item_add_quaternion", "quaternion_add_item"} =>
           res = <<self[1], self[2], self[3], Wrap(item + self[4])>>
    /\ op = "quaternion_sub_item" =>
           res = <<self[1], self[2], self[3], Wrap(self[4] - item)>>
    /\ op = "item_sub_quaternion" =>
           res = <<Wrap(0 - self[1]), Wrap(0 - self[2]), Wrap(0 - self[3]),
                   Wrap(item - self[4])>>

\* 1 - (i - j + k) = 1 - i + j - k
C24_Witness ==
    /\ op = "item_sub_quaternion"
    /\ item = 1
    /\ self = <<1, -1, 1, 0>>
    /\ res = <<-1, 1, -1, 1>>

(***************************************************************************)
(* Specification SpecTranslate: translate(self, other) for a 3 x 3 or      *)
(* 4 x 4 matrix self and a vector other of one item less.                  *)
(***************************************************************************)
\* translate(const mat<_Tp, _dim, _dim>& m, const vec<_Tp, _dim - 1>& v):
\* res = m, then one += per row above the last
translate_twoRows(m, v) ==
    LET dim == NumRows(m)
        res1 == [m EXCEPT ![1][dim] = Add(@, v[1])]
        res2 == [res1 EXCEPT ![2][dim] = Add(@, v[2])]
    IN  res2

translate(m, v) ==
    LET dim == NumRows(m)
        res1 == [m EXCEPT ![1][dim] = Add(@, v[1])]
        res2 == [res1 EXCEPT ![2][dim] = Add(@, v[2])]
    IN  IF dim = 4 THEN [res2 EXCEPT ![3][dim] = Add(@, v[3])] ELSE res2

\* requires(_dim == 4 || _dim == 3)
TranslateDims == {3, 4}

InitTranslate ==
    /\ \E dim \in TranslateDims :
           \/ /\ self \in MatOperands(dim, dim)
              /\ other \in {CountVec(dim - 1), ExtremeVec(dim - 1)}
           \/ /\ self \in BaseMats(dim, dim)
              /\ other \in VecOperands(dim - 1)
    /\ item = 0
    /\ res = <<>>
    /\ op = "none"
    /\ fn = ""
    /\ fault = "none"

Translate ==
    /\ op' = "translate"
    /\ fn' = ""
    /\ res' = translate(self, other)
    /\ fault' = "none"
    /\ UNCHANGED <<self, other, item>>

NextTranslate == Translate

SpecTranslate == InitTranslate /\ [][NextTranslate]_vars

\* C25: for dim in {3, 4}, a dim x dim matrix m and a vector v of length
\* dim-1, translate(m, v) equals m except that element [k][dim-1] is
\* m[k][dim-1] + v[k] for each k < dim-1; every other element, the whole
\* last row included, is unchanged.
C25_Translate ==
    op = "translate" =>
        LET dim == Len(self)
        IN  /\ Len(res) = dim
            /\ \A a \in 1..dim :
                   /\ Len(res[a]) = dim
                   /\ \A b \in 1..dim :
                          res[a][b] = IF b = dim /\ a < dim
                                      THEN Wrap(self[a][b] + other[a])
                                      ELSE self[a][b]

\* a 4 x 4 matrix whose third row receives v[2] = 3 and whose last row stays
C25_Witness ==
    /\ op = "translate"
    /\ Len(self) = 4
    /\ other = <<1, 2, 3>>
    /\ res[3][4] = self[3][4] + 3
    /\ res[3][4] # self[3][4]
    /\ res[4] = self[4]

(***************************************************************************)
(* Specification SpecIncrement: ++self, self++, --self and self-- on a     *)
(* vec<int, n>; the operators change self in place.  item counts the       *)
(* calls, other keeps the value self had before the last call, res is the  *)
(* value returned (for the postfix forms the returned reference is read    *)
(* right after the call, so it shows the new self).                        *)
(***************************************************************************)
\* operator--(): data[i]-- on every item, returns the copy made before
pre_decrement(d) ==
    [data |-> [i \in 1..Len(d) |-> Sub(d[i], 1)], value |-> d]

\* operator--(int): --data[i] on every item, returns *this
post_decrement(d) ==
    LET data == [i \in 1..Len(d) |-> Sub(d[i], 1)]
    IN  [data |-> data, value |-> data]

\* operator++(): data[i]++ on every item, returns the copy made before
pre_increment(d) ==
    [data |-> [i \in 1..Len(d) |-> Add(d[i], 1)], value |-> d]

\* operator++(int): --data[i] on every item, returns *this
post_increment(d) ==
    LET data == [i \in 1..Len(d) |-> Sub(d[i], 1)]
    IN  [data |-> data, value |-> data]

InitIncrement ==
    /\ \E n \in 1..MaxDim : self \in VecOperands(n)
    /\ other = self
    /\ item = 0
    /\ res = <<>>
    /\ op = "none"
    /\ fn = ""
    /\ fault = "none"

Call(name, outcome) ==
    /\ item < MaxCalls
    /\ item' = item + 1
    /\ op' = name
    /\ fn' = ""
    /\ other' = self
    /\ self' = outcome.data
    /\ res' = outcome.value
    /\ fault' = "none"

PreDecrement == Call("pre_decrement", pre_decrement(self))
PostDecrement == Call("post_decrement", post_decrement(self))
PreIncrement == Call("pre_increment", pre_increment(self))
PostIncrement == Call("post_increment", post_increment(self))

NextIncrement == PreDecrement \/ PostDecrement \/ PreIncrement \/ PostIncrement

SpecIncrement == InitIncrement /\ [][NextIncrement]_vars

\* C26: after the post-increment v++ every element of v is exactly one
\* greater than before the call, and the call returns a reference to that
\* incremented container.
C26_PostIncrement ==
    op = "post_increment" =>
        /\ Len(self) = Len(other)
        /\ \A n \in 1..Len(self) : self[n] = Wrap(other[n] + 1)
        /\ res = self

(***************************************************************************)
(* Specification SpecView: writes through the reference returned by the    *)
(* non-const slice<pos, len>() and slice<len>() of a vec<int, n> self.     *)
(* other is <<pos, len>>, item counts the writes, res records the last     *)
(* write: the value self had before, the index k, the value x written and  *)
(* what self[pos + k] reads afterwards.                                    *)
(***************************************************************************)
\* slice<_pos, __length>(): *(vec<_Tp, __length>*)(data + _pos); the
\* reference is modelled by the offset of its data within the parent's data
slice_ref_fromData(pos, length) == 0

slice_ref(pos, length) == pos

\* operator[](index) = x on the reference: its data[index] is the parent's
\* data[offset + index]
write_item(d, ref, index, x) == [d EXCEPT ![ref + index + 1] = x]

InitView ==
    /\ \E n \in 1..MaxDim :
           /\ self \in BaseVecs(n)
           /\ other \in (0..n) \X (0..n)
    /\ item = 0
    /\ res = <<>>
    /\ op = "none"
    /\ fn = ""
    /\ fault = "none"

WriteThrough(name, pos, length) ==
    /\ pos + length <= Len(self)
    /\ length > 0
    /\ item < MaxCalls
    /\ \E k \in 0..(length - 1), x \in Elem \cup {IntMax} :
           LET ref == slice_ref(pos, length)
               data == write_item(self, ref, k, x)
           IN  /\ self' = data
               /\ res' = [before |-> self, k |-> k, x |-> x, read |-> data[pos + k + 1]]
    /\ item' = item + 1
    /\ op' = name
    /\ fn' = ""
    /\ fault' = "none"
    /\ UNCHANGED other

\* v.slice<pos, len>()[k] = x
SliceWrite == WriteThrough("slice_write", other[1], other[2])

\* v.slice<len>()[k] = x
SliceFromStartWrite ==
    /\ other[1] = 0
    /\ WriteThrough("slice_from_start_write", 0, other[2])

NextView == SliceWrite \/ SliceFromStartWrite

SpecView == InitView /\ [][NextView]_vars

\* C27: the reference returned by the non-const v.slice<pos,len>() aliases
\* the parent: writing element k through it changes exactly parent element
\* v[pos + k], leaves every other element of v unchanged, and a later read
\* of v[pos + k] returns the written value.
C27_SliceAliasesParent ==
    op = "slice_write" =>
        LET target == other[1] + res.k + 1
        IN  /\ Len(self) = Len(res.before)
            /\ self[target] = res.x
            /\ \A n \in 1..Len(self) : n # target => self[n] = res.before[n]
            /\ res.read = res.x

\* v = (1, 2, 3, 4): v.slice<1, 2>()[1] = -1 changes v[2] only
C27_Witness ==
    /\ op = "slice_write"
    /\ other = <<1, 2>>
    /\ res.k = 1
    /\ res.before = <<1, 2, 3, 4>>
    /\ self = <<1, 2, -1, 4>>

\* C28: for every shape (R, C) and vector the product A ^ v is enabled for,
\* every element read v[j] has j < v.length and every element written
\* res[i] has i < res.length, so the bounds assertion of the const
\* operator[] can never fire.
C28_ProductIndicesInRange ==
    op = "mat_mul_vec" =>
        /\ \A j \in 0..(NumCols(self) - 1) : j < Len(other)
        /\ \A i \in 0..(NumRows(self) - 1) : i < Len(other)
        /\ fault \notin {"out_of_range", "assertion_failed"}

(***************************************************************************)
(* Specification SpecDetProduct: (self ^ other).det(), self.det() and      *)
(* other.det() for two square matrices of one size N in 1..3.              *)
(***************************************************************************)
\* the sizes for which the product of determinants is compared
MaxProductDim == 3

\* the largest and the smallest item, alternating
ExtremeMat(n) ==
    [i \in 1..n |-> [j \in 1..n |-> IF (i + j) % 2 = 0 THEN IntMax ELSE IntMin]]

\* operands with a determinant other than 0 and 1, and overflowing ones
FactorMats(n) ==
    TestMats(n) \cup {[eye(n, n) EXCEPT ![1][1] = 2], ExtremeMat(n)}

InitDetProduct ==
    /\ \E n \in 1..MaxProductDim :
           \/ /\ self \in Edited(BaseMats(n, n) \cup TestMats(n), n, n, MaxEdits)
              /\ other \in FactorMats(n)
           \/ /\ self \in FactorMats(n)
              /\ other \in Edited(BaseMats(n, n) \cup TestMats(n), n, n, MaxEdits)
    /\ item = 0
    /\ res = <<>>
    /\ op = "none"
    /\ fn = ""
    /\ fault = "none"

\* (self ^ other).det()
DetOfProduct ==
    /\ op' = "det_of_product"
    /\ fn' = "^"
    /\ res' = det(mat_mul_mat(self, other))
    /\ fault' = "none"
    /\ UNCHANGED <<self, other, item>>

\* self.det() * other.det()
ProductOfDets ==
    /\ op' = "product_of_dets"
    /\ fn' = "*"
    /\ res' = Mul(det(self), det(other))
    /\ fault' = "none"
    /\ UNCHANGED <<self, other, item>>

NextDetProduct == DetOfProduct \/ ProductOfDets

SpecDetProduct == InitDetProduct /\ [][NextDetProduct]_vars

\* C29: for all square matrices A, B of one size N in 1..3 with integer
\* elements, (A ^ B).det() == A.det() * B.det().
C29_DetIsMultiplicative ==
    /\ op = "det_of_product" => res = Wrap(det(self) * det(other))
    /\ op = "product_of_dets" => res = det(mat_mul_mat(self, other))

\* A = {{1,2,3},{0,4,5},{1,0,6}} with determinant 22 and B = diag(2, 1, 1):
\* (A ^ B).det() = 44
C29_Witness ==
    /\ op = "det_of_product"
    /\ self = <<<<1, 2, 3>>, <<0, 4, 5>>, <<1, 0, 6>>>>
    /\ other = <<<<2, 0, 0>>, <<0, 1, 0>>, <<0, 0, 1>>>>
    /\ res = 44

(***************************************************************************)
(* Specification SpecShapes: which of the three operator templates accept  *)
(* the operand types self op other (types as in SpecTypes).                *)
(***************************************************************************)
\* __VEC_OP_VEC_ON_EQ_LENGTH: member of a container,
\* requires(dim == VecInfo<_OTp>::dim)
VecOpVecEnabled(l, r) == Vec(l) /\ vec_dim(l) = VecInfo_dim(r)

\* __VEC_OP_ITEM_ON_OP_ABLE: member of a container,
\* requires(VecInfo<_OTp>::dim == 0 || dim == VecInfo<_OTp>::dim + 1)
VecOpItemEnabled(l, r) ==
    Vec(l) /\ (VecInfo_dim(r) = 0 \/ vec_dim(l) = VecInfo_dim(r) + 1)

\* __ITEM_OP_VEC_ON_OP_ENABLE: free template <class _OTp, Vec _Tp>,
\* requires(VecInfo<_OTp>::dim == 0 || VecInfo<_OTp>::dim == _Tp::dim - 1)
ItemOpVecEnabled_sameDim(l, r) ==
    Vec(r) /\ (VecInfo_dim(l) = 0 \/ VecInfo_dim(l) = vec_dim(r))

ItemOpVecEnabled(l, r) ==
    Vec(r) /\ (VecInfo_dim(l) = 0 \/ VecInfo_dim(l) = vec_dim(r) - 1)

\* the operand types: int or float under containers of length 2 or 3
OperandType(t) == t[1] \in {"int", "float"} /\ \A n \in 2..Len(t) : t[n] \in {2, 3}

InitShapes ==
    /\ self \in {t \in Nestings(MaxDepth) : OperandType(t)}
    /\ other \in {t \in Nestings(MaxDepth) : OperandType(t)}
    /\ item = 0
    /\ res = <<>>
    /\ op = "none"
    /\ fn = ""
    /\ fault = "none"

\* self op other: the templates whose constraints hold; none means the
\* expression does not compile
OperatorShapes ==
    /\ \E f \in Operators : fn' = f
    /\ op' = "operator_shapes"
    /\ res' = [vec_op_vec |-> VecOpVecEnabled(self, other),
               vec_op_item |-> VecOpItemEnabled(self, other),
               item_op_vec |-> ItemOpVecEnabled(self, other)]
    /\ fault' = IF VecOpVecEnabled(self, other) \/ VecOpItemEnabled(self, other)
                   \/ ItemOpVecEnabled(self, other)
                THEN "none" ELSE "ill_formed"
    /\ UNCHANGED <<self, other, item>>

NextShapes == OperatorShapes

SpecShapes == InitShapes /\ [][NextShapes]_vars

\* C30: for operand nesting depths (dl, dr) with at least one container
\* operand, the element-wise member form is enabled exactly when
\* dl == dr >= 1, the broadcast-right member form exactly when dl >= 1 and
\* (dr == 0 or dr == dl - 1), the reflected free form exactly when dr >= 1
\* and (dl == 0 or dl == dr - 1); no pair enables two shapes at once.
C30_OneShapePerDepthPair ==
    LET dl == Len(self) - 1
        dr == Len(other) - 1
    IN  (op = "operator_shapes" /\ (dl >= 1 \/ dr >= 1)) =>
            /\ res.vec_op_vec = (dl = dr /\ dl >= 1)
            /\ res.vec_op_item = (dl >= 1 /\ (dr = 0 \/ dr = dl - 1))
            /\ res.item_op_vec = (dr >= 1 /\ (dl = 0 \/ dl = dr - 1))
            /\ ~(res.vec_op_vec /\ res.vec_op_item)
            /\ ~(res.vec_op_vec /\ res.item_op_vec)
            /\ ~(res.vec_op_item /\ res.item_op_vec)

\* vec<vec<int, 2>, 3> op vec<int, 2>: only the broadcast-right form
C30_Witness ==
    /\ op = "operator_shapes"
    /\ self = <<"int", 2, 3>>
    /\ other = <<"int", 2>>
    /\ res.vec_op_item
    /\ ~res.vec_op_vec
    /\ ~res.item_op_vec

====
